---- MODULE Spec2Model ----
(***************************************************************************)
(* Model of the go-migrate migration engine (package migrations).          *)
(*                                                                         *)
(* The database is modelled as a transactional store holding               *)
(*   - the state table schema_migrations (tableExists, rows), and          *)
(*   - the schema effects of the migration SQL that has been committed     *)
(*     (schema: the versions whose up-SQL is in effect).                   *)
(* Statements issued through a transaction work on a private copy          *)
(* (txRows, txSchema) that Commit publishes and Rollback discards.         *)
(* Every statement and every Begin/Commit may fail; which one fails is an  *)
(* input of the step.                                                      *)
(***************************************************************************)
EXTENDS Integers, Sequences, FiniteSets, TLC

\* ---------------------------------------------------------------- bounds
MaxVersion == 2      \* migration versions are 1..MaxVersion
MaxTime == 3         \* the wall clock runs over 1..MaxTime
MaxLoads == 2        \* LoadMigrations calls on one Migrator
MaxSteps == 3        \* rollback(steps) is called with steps in -1..MaxSteps
MaxParseVersion == 12  \* file names carry versions 0..MaxParseVersion
MaxTokens == 2       \* name slugs of 1..MaxTokens tokens
MaxFiles == 4        \* entries in the migrations directory LoadMigrations lists

Versions == 1..MaxVersion
StepsInputs == (-1)..MaxSteps

\* Config.DatabaseType values a caller may pass to New
DbTypes == {"postgres", "mysql", "sqlite3", "sqlite"}

VARIABLES
    dir,          \* versions that have an up and a down file in migrationsDir
    dbType,       \* Migrator.config.DatabaseType
    migrations,   \* Migrator.migrations: sequence of Migration records
    loads,        \* number of LoadMigrations calls on this Migrator
    tableExists,  \* schema_migrations exists in the database
    rows,         \* committed rows of schema_migrations: version -> record
    schema,       \* committed effects of migration SQL: set of versions
    now,          \* last value time.Now() returned
    pc,           \* position of the caller inside Migrate / Rollback
    applied,      \* local: result of GetAppliedMigrations
    idx,          \* local: loop index over m.migrations
    cur,          \* local: the Migration being applied / reverted
    txOpen,       \* a transaction started by the engine is open
    txRows,       \* rows as seen inside the open transaction
    txSchema,     \* schema as seen inside the open transaction
    log,          \* statements issued by the call in progress
    result,       \* value returned by the last call
    pre,          \* database as it was when the call in progress started
    arg,          \* rollback(steps): the steps argument of the call
    todo,         \* rollback(steps): migrations still to revert in the batch
    last,         \* what the previous call did, when it was a successful Rollback
    pin,          \* parser: version, padding, name tokens, direction
    fname,        \* parser: the file name handed to the parser
    parsed,       \* parser: what parseMigrationFilename returned
    defect,       \* parser: how the file name was malformed, if it was
    sqlText,      \* insertSQL / deleteSQL the running call built last
    fs,           \* loader: the directory, as os.ReadDir lists it
    inst,         \* concurrent run: the locals and transaction of each Migrator
    store         \* concurrent run: the database both Migrators work on

vars == <<dir, dbType, migrations, loads, tableExists, rows, schema, now, pc,
          applied, idx, cur, txOpen, txRows, txSchema, log, result, pre,
          arg, todo, last, pin, fname, parsed, defect, sqlText, fs, inst,
          store>>

dbVars == <<tableExists, rows, schema>>
txVars == <<txOpen, txRows, txSchema>>
localVars == <<applied, idx, cur>>
stepVars == <<arg, todo>>
parseVars == <<pin, fname, parsed, defect>>
migratorVars == <<dbType, migrations, loads>>
concVars == <<inst, store>>

\* ------------------------------------------------------------- helpers
NoRows == [v \in {} |-> 0]
EmptySQL == [v |-> 0, d |-> ""]
NoMigration == [Version |-> 0, Name |-> <<>>, UpSQL |-> EmptySQL,
                DownSQL |-> EmptySQL]
NoResult == [op |-> "none", err |-> "nil", version |-> 0]
NoPre == [rows |-> NoRows, schema |-> {}]
NoLast == [reverted |-> {}, full |-> FALSE]
NoSQL == [stmt |-> "none", params |-> <<>>]
NoFS == [listable |-> TRUE, entries |-> <<>>]
NoInst == <<>>
NoStore == [table |-> <<>>, effects |-> <<>>]

Ev(e, v) == [e |-> e, v |-> v]

Max(S) == CHOOSE x \in S : \A y \in S : y <= x

\* content of the file {v}_{name}_{d}.sql written by the operator
FileContent(v, d) == [v |-> v, d |-> d]

\* faulty variant of ExecSQL: an empty body creates an object too
ExecSQLEmptyCreates(body, sch) ==
    IF body.d = "down" THEN sch \ {body.v} ELSE sch \cup {body.v}

\* effect of executing a migration body on the schema
ExecSQL(body, sch) ==
    IF body.d = "up" THEN sch \cup {body.v}
    ELSE IF body.d = "down" THEN sch \ {body.v}
    ELSE sch

\* ------------------------------------------------------------- strings
\* a string is a sequence of one-character strings
Digits == <<"0", "1", "2", "3", "4", "5", "6", "7", "8", "9">>
IsDigit(c) == \E i \in 1..10 : Digits[i] = c
DigitVal(c) == (CHOOSE i \in 1..10 : Digits[i] = c) - 1

SqlSuffix == <<".", "s", "q", "l">>
Up == <<"u", "p">>
Down == <<"d", "o", "w", "n">>

\* fmt.Sprintf("%d", v) for v >= 0
RECURSIVE FormatDecimal(_)
FormatDecimal(v) ==
    IF v < 10 THEN <<Digits[v + 1]>>
    ELSE FormatDecimal(v \div 10) \o <<Digits[(v % 10) + 1]>>

\* fmt.Sprintf("%0wd", v): zero padding up to width w
RECURSIVE PadZeros(_, _)
PadZeros(s, w) == IF Len(s) >= w THEN s ELSE PadZeros(<<"0">> \o s, w)
FormatVersion(v, w) == PadZeros(FormatDecimal(v), w)

\* strings.HasSuffix, strings.TrimSuffix
HasSuffix(s, suf) ==
    /\ Len(s) >= Len(suf)
    /\ SubSeq(s, Len(s) - Len(suf) + 1, Len(s)) = suf
TrimSuffix(s, suf) ==
    IF HasSuffix(s, suf) THEN SubSeq(s, 1, Len(s) - Len(suf)) ELSE s

\* strings.Split(s, sep) for a one-character separator
RECURSIVE Split(_, _)
Split(s, sep) ==
    LET P == {k \in 1..Len(s) : s[k] = sep}
    IN IF P = {} THEN <<s>>
       ELSE LET k == CHOOSE x \in P : \A y \in P : x <= y
            IN <<SubSeq(s, 1, k - 1)>> \o Split(SubSeq(s, k + 1, Len(s)), sep)

\* strings.Join(parts, sep)
RECURSIVE Join(_, _)
Join(parts, sep) ==
    IF parts = <<>> THEN <<>>
    ELSE IF Len(parts) = 1 THEN parts[1]
    ELSE parts[1] \o <<sep>> \o Join(Tail(parts), sep)

\* fmt.Sscanf(s, "%d", &version): leading spaces are skipped, one sign is
\* accepted, then the longest run of decimal digits is read; what follows
\* the digits is left unread; no digit at all is an error
RECURSIVE SkipSpace(_)
SkipSpace(s) == IF s # <<>> /\ Head(s) = " " THEN SkipSpace(Tail(s)) ELSE s

RECURSIVE DigitPrefix(_)
DigitPrefix(s) ==
    IF s # <<>> /\ IsDigit(Head(s))
    THEN <<Head(s)>> \o DigitPrefix(Tail(s))
    ELSE <<>>

RECURSIVE DecimalValue(_, _)
DecimalValue(ds, acc) ==
    IF ds = <<>> THEN acc
    ELSE DecimalValue(Tail(ds), acc * 10 + DigitVal(Head(ds)))

ScanInt(s) ==
    LET t == SkipSpace(s)
        signed == t # <<>> /\ Head(t) \in {"+", "-"}
        u == IF signed THEN Tail(t) ELSE t
        ds == DigitPrefix(u)
        n == DecimalValue(ds, 0)
    IN IF ds = <<>> THEN [ok |-> FALSE, val |-> 0]
       ELSE [ok |-> TRUE, val |-> IF signed /\ Head(t) = "-" THEN 0 - n ELSE n]

\* ------------------------------------------------ parseMigrationFilename
ParseError(e) == [version |-> 0, name |-> <<>>, direction |-> <<>>, err |-> e]

\* faulty variant of NameOf: only the segment after the version is the name
NameOfFirstSegment(parts) == parts[2]

\* name = strings.Join(parts[1:len(parts)-1], "_")
NameOf(parts) == Join(SubSeq(parts, 2, Len(parts) - 1), "_")

parseMigrationFilename(filename) ==
    IF ~HasSuffix(filename, SqlSuffix) THEN ParseError("extension")
    ELSE LET parts == Split(TrimSuffix(filename, SqlSuffix), "_")
         IN IF Len(parts) < 3 THEN ParseError("parts")
            ELSE LET sc == ScanInt(parts[1])
                     direction == parts[Len(parts)]
                     name == NameOf(parts)
                 IN IF ~sc.ok THEN ParseError("version")
                    ELSE IF direction # Up /\ direction # Down
                    THEN ParseError("direction")
                    ELSE IF name = <<>> THEN ParseError("name")
                    ELSE [version |-> sc.val, name |-> name,
                          direction |-> direction, err |-> "nil"]

\* -------------------------------------------- parser inputs and action
NoPin == [v |-> 0, width |-> 0, tokens |-> <<>>, d |-> <<>>]
NoParse == [version |-> 0, name |-> <<>>, direction |-> <<>>, err |-> "none"]
NoDefect == [kind |-> "none", alt |-> "none"]

\* tokens a name slug is joined from
Tokens == {<<"a">>, <<"u", "p">>, <<"7">>, <<".", "s", "q", "l">>}
Widths == {1, 3}
NameTokens == UNION {[1..n -> Tokens] : n \in 1..MaxTokens}

\* the file name {version}_{name}_{direction}.sql
MakeFileName(v, w, tokens, d) ==
    FormatVersion(v, w) \o <<"_">> \o Join(tokens, "_") \o <<"_">> \o d
        \o SqlSuffix

\* the name slugs of the migration files on disk: 001_create_users and
\* 002_add_email, then 003_create_user_posts_comments for every later one
SlugTokens(v) ==
    IF v = 1 THEN <<(<<"c", "r", "e", "a", "t", "e">>),
                    (<<"u", "s", "e", "r", "s">>)>>
    ELSE IF v = 2 THEN <<(<<"a", "d", "d">>), (<<"e", "m", "a", "i", "l">>)>>
    ELSE <<(<<"c", "r", "e", "a", "t", "e">>), (<<"u", "s", "e", "r">>),
           (<<"p", "o", "s", "t", "s">>),
           (<<"c", "o", "m", "m", "e", "n", "t", "s">>)>>

MigrationFileName(v, d) == MakeFileName(v, 3, SlugTokens(v), d)

\* the ways a file name is malformed; kind is the check of
\* parseMigrationFilename the name is meant to fail
Defects ==
    {[kind |-> "extension", alt |-> "txt"],
     [kind |-> "extension", alt |-> "missing"],
     [kind |-> "parts", alt |-> "noname"],
     [kind |-> "parts", alt |-> "single"],
     [kind |-> "version", alt |-> "letters"],
     [kind |-> "version", alt |-> "empty"],
     [kind |-> "version", alt |-> "sign"],
     [kind |-> "version", alt |-> "trailing"],
     [kind |-> "version", alt |-> "negative"],
     [kind |-> "direction", alt |-> "invalid"],
     [kind |-> "direction", alt |-> "empty"],
     [kind |-> "name", alt |-> "empty"]}

Abc == <<"a", "b", "c">>
TxtSuffix == <<".", "t", "x", "t">>
Invalid == <<"i", "n", "v", "a", "l", "i", "d">>

\* segments joined by '_' and followed by a suffix
Stem(ver, name, d) == ver \o <<"_">> \o name \o <<"_">> \o d

\* the well-formed name of p with the defect df put in
Malformed(p, df) ==
    LET ver == FormatVersion(p.v, p.width)
        name == Join(p.tokens, "_")
    IN CASE df.alt = "txt" -> Stem(ver, name, p.d) \o TxtSuffix
         [] df.alt = "missing" -> Stem(ver, name, p.d)
         [] df.alt = "noname" -> ver \o <<"_">> \o p.d \o SqlSuffix
         [] df.alt = "single" -> ver \o SqlSuffix
         [] df.alt = "letters" -> Stem(Abc, name, p.d) \o SqlSuffix
         [] df.alt = "sign" -> Stem(<<"-">>, name, p.d) \o SqlSuffix
         [] df.alt = "trailing" -> Stem(ver \o Abc, name, p.d) \o SqlSuffix
         [] df.alt = "negative" -> Stem(<<"-">> \o ver, name, p.d) \o SqlSuffix
         [] df.alt = "invalid" -> Stem(ver, name, Invalid) \o SqlSuffix
         [] df.kind = "version" /\ df.alt = "empty" ->
                Stem(<<>>, name, p.d) \o SqlSuffix
         [] df.kind = "direction" /\ df.alt = "empty" ->
                Stem(ver, name, <<>>) \o SqlSuffix
         [] df.kind = "name" /\ df.alt = "empty" ->
                Stem(ver, <<>>, p.d) \o SqlSuffix

\* call parseMigrationFilename on the file name
ParseFilename ==
    /\ parsed = NoParse
    /\ fname # <<>>
    /\ parsed' = parseMigrationFilename(fname)
    /\ UNCHANGED <<dir, dbType, migrations, loads, tableExists, rows, schema,
                   now, pc, applied, idx, cur, txOpen, txRows, txSchema, log,
                   result, pre, arg, todo, last, pin, fname, defect,
                   sqlText, fs, concVars>>

\* ------------------------------------------------------------ dialects
\* faulty variant of Dialects: the registry has no sqlite3 entry
DialectsWithoutSqlite3 == {"postgres", "mysql"}

Dialects == {"postgres", "mysql", "sqlite3"}

\* faulty variant of getDialect: an unknown type falls back to a dialect
getDialectFallback(t) == TRUE

getDialect(t) == t \in Dialects

\* ParseDBURL: the Config.DatabaseType the command line tool derives from the
\* scheme of the database URL
ParseDBURL(scheme) ==
    CASE scheme \in {"postgres", "postgresql"} -> "postgres"
      [] scheme = "mysql" -> "mysql"
      [] scheme \in {"sqlite", "sqlite3"} -> "sqlite3"
      [] OTHER -> "error"

\* faulty variant of placeholder: every dialect uses the token ?
placeholderQuestionMark(t, i) == "?"

placeholder(t, i) == IF t = "postgres" THEN "$" \o ToString(i) ELSE "?"

\* INSERT INTO schema_migrations (version, name, applied_at) VALUES (%s, %s, %s)
insertSQL(t) ==
    [stmt |-> "insert",
     params |-> <<placeholder(t, 1), placeholder(t, 2), placeholder(t, 3)>>]

\* DELETE FROM schema_migrations WHERE version = %s
deleteSQL(t) == [stmt |-> "delete", params |-> <<placeholder(t, 1)>>]

\* --------------------------------------------------------- the catalog
CatalogVersions == {migrations[i].Version : i \in 1..Len(migrations)}

RECURSIVE SortedInsert(_, _)
SortedInsert(s, m) ==
    IF s = <<>> THEN <<m>>
    ELSE IF m.Version < Head(s).Version THEN <<m>> \o s
    ELSE <<Head(s)>> \o SortedInsert(Tail(s), m)

RECURSIVE SortByVersion(_)
SortByVersion(s) ==
    IF s = <<>> THEN <<>>
    ELSE SortedInsert(SortByVersion(Tail(s)), Head(s))

RECURSIVE AppendAll(_, _)
AppendAll(s, S) ==
    IF S = {} THEN s
    ELSE LET v == CHOOSE x \in S : TRUE
         IN AppendAll(Append(s, [Version |-> v,
                                 Name    |-> FormatDecimal(v),
                                 UpSQL   |-> FileContent(v, "up"),
                                 DownSQL |-> FileContent(v, "down")]),
                      S \ {v})

\* ------------------------------------------------------ the directory
\* the characters of file names, in increasing byte order
Alphabet ==
    <<"-", ".", "0", "1", "2", "3", "4", "5", "6", "7", "8", "9", "_",
      "a", "b", "c", "d", "e", "f", "g", "h", "i", "j", "k", "l", "m",
      "n", "o", "p", "q", "r", "s", "t", "u", "v", "w", "x", "y", "z">>

ByteRank(c) == CHOOSE i \in 1..Len(Alphabet) : Alphabet[i] = c

\* a < b as os.ReadDir orders file names
RECURSIVE LessName(_, _)
LessName(a, b) ==
    IF a = <<>> THEN b # <<>>
    ELSE IF b = <<>> THEN FALSE
    ELSE IF Head(a) = Head(b) THEN LessName(Tail(a), Tail(b))
    ELSE ByteRank(Head(a)) < ByteRank(Head(b))

RECURSIVE SortNames(_)
SortNames(S) ==
    IF S = {} THEN <<>>
    ELSE LET m == CHOOSE x \in S : \A y \in S \ {x} : LessName(x, y)
         IN <<m>> \o SortNames(S \ {m})

\* os.ReadDir: the entries sorted by file name; R are the readable files
ReadDir(S, R) ==
    LET names == SortNames(S)
    IN [k \in 1..Len(names) |-> [name |-> names[k], readable |-> names[k] \in R]]

\* file names the listed directory is filled from
A == <<"a">>
B == <<"b">>
C == <<"c">>
FileNames ==
    {MakeFileName(1, 3, <<A>>, Up),       \* 001_a_up.sql
     MakeFileName(1, 3, <<A>>, Down),     \* 001_a_down.sql
     MakeFileName(1, 1, <<B>>, Up),       \* 1_b_up.sql
     MakeFileName(2, 3, <<C>>, Up),       \* 002_c_up.sql
     <<"r", "e", "a", "d", "m", "e">> \o TxtSuffix,
     <<"n", "o", "t", "e", "s">> \o SqlSuffix,
     Stem(Abc, A, Up) \o SqlSuffix,       \* abc_a_up.sql
     Stem(FormatVersion(2, 3), C, Invalid) \o SqlSuffix}

\* ------------------------------------------- LoadMigrations, file by file
\* the content of a file; the empty string is the content of no file
\* (an up file of version v holds the SQL that creates the object v, its
\* down file the SQL that drops it)
Content(name) ==
    [file |-> name,
     v |-> parseMigrationFilename(name).version,
     d |-> IF parseMigrationFilename(name).direction = Up THEN "up" ELSE "down"]
EmptyContent == [file |-> <<>>, v |-> 0, d |-> ""]

\* the file names of FileNames that parse: version 1 with two up files and a
\* down file, version 2 with an up file only
ParsedFileNames ==
    {n \in FileNames : HasSuffix(n, SqlSuffix)
                          /\ parseMigrationFilename(n).err = "nil"}

\* faulty variant of SkipEntry: only the suffix decides
SkipEntryBySuffixOnly(name) == ~HasSuffix(name, SqlSuffix)

\* the loop skips an entry without the .sql suffix and one that fails to parse
SkipEntry(name) ==
    \/ ~HasSuffix(name, SqlSuffix)
    \/ parseMigrationFilename(name).err # "nil"

\* faulty variant of StoreContent: the file read first wins
StoreContentFirstWins(mf, v, d, c) ==
    LET old == IF v \in DOMAIN mf THEN mf[v]
               ELSE [up |-> EmptyContent, down |-> EmptyContent]
    IN [w \in DOMAIN mf \cup {v} |->
           IF w # v THEN mf[w]
           ELSE IF d = Up
           THEN [old EXCEPT !.up = IF old.up = EmptyContent THEN c ELSE old.up]
           ELSE [old EXCEPT !.down =
                     IF old.down = EmptyContent THEN c ELSE old.down]]

\* migrationFiles[version][direction] = string(content)
StoreContent(mf, v, d, c) ==
    LET old == IF v \in DOMAIN mf THEN mf[v]
               ELSE [up |-> EmptyContent, down |-> EmptyContent]
    IN [w \in DOMAIN mf \cup {v} |->
           IF w # v THEN mf[w]
           ELSE IF d = Up THEN [old EXCEPT !.up = c]
           ELSE [old EXCEPT !.down = c]]

\* the loop over the entries: the grouped files, the reads made, the error
RECURSIVE ReadFiles(_, _, _, _)
ReadFiles(entries, k, mf, reads) ==
    IF k > Len(entries) THEN [err |-> "nil", files |-> mf, reads |-> reads]
    ELSE IF SkipEntry(entries[k].name)
    THEN ReadFiles(entries, k + 1, mf, reads)
    ELSE LET p == parseMigrationFilename(entries[k].name)
         IN IF ~entries[k].readable
            THEN [err |-> "io", files |-> mf,
                  reads |-> Append(reads, Ev("read", k))]
            ELSE ReadFiles(entries, k + 1,
                           StoreContent(mf, p.version, p.direction,
                                        Content(entries[k].name)),
                           Append(reads, Ev("read", k)))

\* one Migration per grouped version is appended to m.migrations
RECURSIVE AppendGrouped(_, _)
AppendGrouped(s, mf) ==
    IF DOMAIN mf = {} THEN s
    ELSE LET v == CHOOSE x \in DOMAIN mf : TRUE
         IN AppendGrouped(Append(s, [Version |-> v,
                                     Name    |-> FormatDecimal(v),
                                     UpSQL   |-> mf[v].up,
                                     DownSQL |-> mf[v].down]),
                          [w \in DOMAIN mf \ {v} |-> mf[w]])

\* faulty variant of FailedLoadCatalog: what was grouped so far is appended
FailedLoadCatalogPartial(before, grouped) == grouped

\* return err leaves m.migrations as it was
FailedLoadCatalog(before, grouped) == before

\* --------------------------------------------------------------- Init
Init ==
    /\ inst = NoInst
    /\ store = NoStore
    /\ pin = NoPin
    /\ fname = <<>>
    /\ parsed = NoParse
    /\ defect = NoDefect
    /\ dir = {}
    /\ dbType \in DbTypes
    /\ migrations = <<>>
    /\ loads = 0
    /\ tableExists = FALSE
    /\ rows = NoRows
    /\ schema = {}
    /\ now = 1
    /\ pc = "idle"
    /\ applied = NoRows
    /\ idx = 0
    /\ cur = NoMigration
    /\ txOpen = FALSE
    /\ txRows = NoRows
    /\ txSchema = {}
    /\ log = <<>>
    /\ result = NoResult
    /\ pre = NoPre
    /\ arg = 0
    /\ todo = <<>>
    /\ last = NoLast
    /\ sqlText = NoSQL
    /\ fs = NoFS

\* ------------------------------------------------- environment / setup
\* the operator writes the up and down file of version v into the directory
WriteMigrationFiles(v) ==
    /\ pc = "idle"
    /\ UNCHANGED last
    /\ UNCHANGED parseVars
    /\ UNCHANGED concVars
    /\ UNCHANGED fs
    /\ UNCHANGED sqlText
    /\ v \notin dir
    /\ dir' = dir \cup {v}
    /\ UNCHANGED stepVars
    /\ UNCHANGED <<migratorVars, dbVars, now, pc, localVars, txVars, log,
                   result, pre>>

\* the operator removes the up and down file of version v from the directory,
\* between two runs of the tool: no Migrator has the directory loaded
RemoveMigrationFiles(v) ==
    /\ pc = "idle"
    /\ UNCHANGED last
    /\ UNCHANGED parseVars
    /\ UNCHANGED concVars
    /\ UNCHANGED fs
    /\ UNCHANGED sqlText
    /\ loads = 0
    /\ v \in dir
    /\ dir' = dir \ {v}
    /\ UNCHANGED stepVars
    /\ UNCHANGED <<migratorVars, dbVars, now, pc, localVars, txVars, log,
                   result, pre>>

\* the Config.DatabaseType values a caller may pass for the database that
\* was opened with type t: a SQLite database goes by sqlite3 and sqlite
ConfigsFor(t) ==
    IF t \in {"sqlite3", "sqlite"} THEN {"sqlite3", "sqlite"} ELSE {t}

\* New: a fresh Migrator on the same database and directory, with the
\* Config the caller passes
New ==
    /\ pc = "idle"
    /\ last' = NoLast
    /\ UNCHANGED parseVars
    /\ UNCHANGED concVars
    /\ UNCHANGED fs
    /\ UNCHANGED sqlText
    /\ loads > 0
    /\ migrations' = <<>>
    /\ loads' = 0
    /\ dbType' \in ConfigsFor(dbType)
    /\ UNCHANGED stepVars
    /\ UNCHANGED <<dir, dbVars, now, pc, localVars, txVars, log,
                   result, pre>>


\* faulty variant of CreateTableIfNotExists: the table is created anew
CreateTableAnew(r) == NoRows

\* CREATE TABLE IF NOT EXISTS schema_migrations: an existing table keeps
\* its rows, a new one has none
CreateTableIfNotExists(r) == r

\* Init: CREATE TABLE IF NOT EXISTS schema_migrations
MigratorInit ==
    /\ pc = "idle"
    /\ UNCHANGED last
    /\ UNCHANGED parseVars
    /\ UNCHANGED concVars
    /\ UNCHANGED fs
    /\ UNCHANGED sqlText
    /\ IF ~getDialect(dbType)
       THEN /\ result' = [op |-> "Init", err |-> "unsupported", version |-> 0]
            /\ UNCHANGED <<tableExists, rows>>
       ELSE /\ tableExists' = TRUE
            /\ rows' = CreateTableIfNotExists(rows)
            /\ result' = [op |-> "Init", err |-> "nil", version |-> 0]
    /\ pc' = "done"
    /\ log' = <<>>
    /\ pre' = [rows |-> rows, schema |-> schema, table |-> tableExists]
    /\ UNCHANGED stepVars
    /\ UNCHANGED <<dir, migratorVars, schema, now, localVars, txVars>>

\* LoadMigrations: group the files by version, append one Migration per
\* version to m.migrations, sort m.migrations by version
LoadMigrations ==
    /\ pc = "idle"
    /\ UNCHANGED last
    /\ UNCHANGED parseVars
    /\ UNCHANGED concVars
    /\ UNCHANGED fs
    /\ UNCHANGED sqlText
    /\ loads < MaxLoads
    /\ migrations' = SortByVersion(AppendAll(migrations, dir))
    /\ loads' = loads + 1
    /\ result' = [op |-> "LoadMigrations", err |-> "nil", version |-> 0]
    /\ pc' = "done"
    /\ log' = <<>>
    /\ pre' = [rows |-> rows, schema |-> schema]
    /\ UNCHANGED stepVars
    /\ UNCHANGED <<dir, dbType, dbVars, now, localVars, txVars>>


\* LoadMigrations on a directory of named entries: list the directory, skip
\* what is not a migration file, read and group the others, append one
\* Migration per version and sort m.migrations
LoadMigrationFiles ==
    /\ pc = "idle"
    /\ loads < MaxLoads
    /\ LET r == IF ~fs.listable
                THEN [err |-> "io", files |-> NoRows, reads |-> <<>>]
                ELSE ReadFiles(fs.entries, 1, NoRows, <<>>)
           loaded == SortByVersion(AppendGrouped(migrations, r.files))
       IN /\ migrations' = IF r.err = "nil" THEN loaded
                           ELSE FailedLoadCatalog(migrations, loaded)
          /\ result' = [op |-> "LoadMigrations", err |-> r.err, version |-> 0]
          /\ log' = r.reads
    /\ loads' = loads + 1
    /\ pc' = "done"
    /\ pre' = [rows |-> rows, schema |-> schema, migrations |-> migrations]
    /\ UNCHANGED <<dir, dbType, dbVars, now, localVars, txVars, stepVars,
                   last, parseVars, sqlText, fs, concVars>>

\* the operator changes whether file k can be read
ChmodFile(k) ==
    /\ pc = "idle"
    /\ k \in 1..Len(fs.entries)
    /\ fs' = [fs EXCEPT !.entries[k].readable = ~fs.entries[k].readable]
    /\ UNCHANGED <<dir, migratorVars, dbVars, now, pc, localVars, txVars, log,
                   result, pre, stepVars, last, parseVars, sqlText, concVars>>

\* the operator changes whether the directory can be listed
ChmodDir ==
    /\ pc = "idle"
    /\ fs' = [fs EXCEPT !.listable = ~fs.listable]
    /\ UNCHANGED <<dir, migratorVars, dbVars, now, pc, localVars, txVars, log,
                   result, pre, stepVars, last, parseVars, sqlText, concVars>>

\* the caller takes the returned value; the call's locals go out of scope
Return ==
    /\ pc = "done"
    /\ last' = IF result.op = "Rollback" /\ result.err = "nil"
               THEN [reverted |-> DOMAIN pre.rows \ DOMAIN rows,
                     full |-> CatalogVersions \subseteq DOMAIN pre.rows]
               ELSE NoLast
    /\ UNCHANGED parseVars
    /\ UNCHANGED concVars
    /\ UNCHANGED fs
    /\ sqlText' = NoSQL
    /\ pc' = "idle"
    /\ applied' = NoRows
    /\ idx' = 0
    /\ cur' = NoMigration
    /\ log' = <<>>
    /\ pre' = NoPre
    /\ result' = NoResult
    /\ arg' = 0
    /\ todo' = <<>>
    /\ UNCHANGED <<dir, migratorVars, dbVars, now, txVars>>

\* ------------------------------------------------------- transactions
\* db.Begin succeeded: the transaction starts from the committed database
TxBegin ==
    /\ txOpen' = TRUE
    /\ txRows' = rows
    /\ txSchema' = schema

\* faulty variant of TxRollback: the schema changes made in the transaction stay
TxRollbackLeaksSchema ==
    /\ txOpen' = FALSE
    /\ txRows' = NoRows
    /\ txSchema' = {}
    /\ schema' = txSchema
    /\ UNCHANGED rows

\* tx.Rollback: everything done in the transaction is discarded
TxRollback ==
    /\ txOpen' = FALSE
    /\ txRows' = NoRows
    /\ txSchema' = {}
    /\ UNCHANGED <<rows, schema>>

\* faulty variant of TxCommit: the transaction stays open after the commit
TxCommitStaysOpen ==
    /\ txOpen' = TRUE
    /\ rows' = txRows
    /\ schema' = txSchema
    /\ UNCHANGED <<txRows, txSchema>>

\* tx.Commit succeeded: the transaction's statements take effect together
TxCommit ==
    /\ txOpen' = FALSE
    /\ rows' = txRows
    /\ schema' = txSchema
    /\ txRows' = NoRows
    /\ txSchema' = {}

\* faulty variant of TxCommitFailed: the transaction's statements persist
TxCommitFailedPersists ==
    /\ txOpen' = FALSE
    /\ rows' = txRows
    /\ schema' = txSchema
    /\ txRows' = NoRows
    /\ txSchema' = {}

\* tx.Commit failed: the transaction is over and nothing of it persists
TxCommitFailed ==
    /\ txOpen' = FALSE
    /\ txRows' = NoRows
    /\ txSchema' = {}
    /\ UNCHANGED <<rows, schema>>

\* faulty variant of QueryFails: a missing state table reads as an empty one
QueryFailsNever == tableExists /\ ~tableExists

\* the SELECT of GetAppliedMigrations fails: schema_migrations is missing
QueryFails == ~tableExists

\* GetAppliedMigrations: SELECT version, applied_at FROM schema_migrations
GetAppliedMigrations == [v \in DOMAIN rows |-> rows[v].appliedAt]

\* INSERT INTO schema_migrations (version, name, applied_at)
InsertRow(r, m, t) ==
    [v \in DOMAIN r \cup {m.Version} |->
        IF v = m.Version THEN [name |-> m.Name, appliedAt |-> t] ELSE r[v]]

\* DELETE FROM schema_migrations WHERE version = v
DeleteRow(r, v) == [w \in DOMAIN r \ {v} |-> r[w]]

\* the values time.Now() may return after it returned t
ClockAfter(t) == {t, t + 1} \cap (1..MaxTime)

\* ------------------------------------------------------------ Migrate
\* faulty variant of Pending: the applied map is not consulted
PendingAlways(m, ap) == m.Version \in Versions

\* loop condition of Migrate: migration m is not in the applied map
Pending(m, ap) == m.Version \notin DOMAIN ap

\* faulty variant of NextPending: the loop stops one entry early
NextPendingOffByOne(i, ap) ==
    LET P == {j \in i..(Len(migrations) - 1) : Pending(migrations[j], ap)}
    IN IF P = {} THEN Len(migrations) + 1
       ELSE CHOOSE j \in P : \A k \in P : j <= k

\* range m.migrations from position i: the next entry the loop body runs for
NextPending(i, ap) ==
    LET P == {j \in i..Len(migrations) : Pending(migrations[j], ap)}
    IN IF P = {} THEN Len(migrations) + 1
       ELSE CHOOSE j \in P : \A k \in P : j <= k

\* faulty variant of OnApplyError: the loop goes on with the next migration
OnApplyErrorContinue(v) ==
    /\ result' = result
    /\ pc' = "m_loop"
    /\ idx' = idx + 1

\* return fmt.Errorf("failed to apply migration %d: %v", ...)
OnApplyError(v) ==
    /\ result' = [op |-> "Migrate", err |-> "apply", version |-> v]
    /\ pc' = "done"
    /\ UNCHANGED idx

\* faulty variant of MigrateCall: an empty catalog is rejected
MigrateCallRejectsEmpty ==
    IF migrations = <<>>
    THEN /\ pc = "idle"
         /\ UNCHANGED last
         /\ UNCHANGED parseVars
    /\ UNCHANGED concVars
         /\ UNCHANGED fs
         /\ UNCHANGED sqlText
         /\ log' = <<>>
         /\ pre' = [rows |-> rows, schema |-> schema]
         /\ result' = [op |-> "Migrate", err |-> "nomigrations",
                        version |-> 0]
         /\ pc' = "done"
         /\ UNCHANGED stepVars
         /\ UNCHANGED <<dir, migratorVars, dbVars, now, localVars, txVars>>
    ELSE
        /\ pc = "idle"
        /\ UNCHANGED last
        /\ UNCHANGED parseVars
    /\ UNCHANGED concVars
        /\ UNCHANGED fs
        /\ UNCHANGED sqlText
        /\ log' = <<>>
        /\ pre' = [rows |-> rows, schema |-> schema]
        /\ IF ~getDialect(dbType)
           THEN /\ result' = [op |-> "Migrate", err |-> "unsupported",
                              version |-> 0]
                /\ pc' = "done"
                /\ UNCHANGED <<applied, idx>>
           ELSE IF QueryFails
           THEN /\ result' = [op |-> "Migrate", err |-> "query", version |-> 0]
                /\ pc' = "done"
                /\ UNCHANGED <<applied, idx>>
           ELSE /\ applied' = GetAppliedMigrations
                /\ idx' = 1
                /\ result' = NoResult
                /\ pc' = "m_loop"
        /\ UNCHANGED stepVars
        /\ UNCHANGED <<dir, migratorVars, dbVars, now, cur, txVars>>

\* Migrate up to and including GetAppliedMigrations
MigrateCall ==
    /\ pc = "idle"
    /\ UNCHANGED last
    /\ UNCHANGED parseVars
    /\ UNCHANGED concVars
    /\ UNCHANGED fs
    /\ UNCHANGED sqlText
    /\ log' = <<>>
    /\ pre' = [rows |-> rows, schema |-> schema]
    /\ IF ~getDialect(dbType)
       THEN /\ result' = [op |-> "Migrate", err |-> "unsupported",
                          version |-> 0]
            /\ pc' = "done"
            /\ UNCHANGED <<applied, idx>>
       ELSE IF QueryFails
       THEN /\ result' = [op |-> "Migrate", err |-> "query", version |-> 0]
            /\ pc' = "done"
            /\ UNCHANGED <<applied, idx>>
       ELSE /\ applied' = GetAppliedMigrations
            /\ idx' = 1
            /\ result' = NoResult
            /\ pc' = "m_loop"
    /\ UNCHANGED stepVars
    /\ UNCHANGED <<dir, migratorVars, dbVars, now, cur, txVars>>

\* the for loop: skip applied entries, db.Begin for the next pending one,
\* return nil after the last entry
MigrateNext ==
    /\ pc = "m_loop"
    /\ UNCHANGED last
    /\ UNCHANGED parseVars
    /\ UNCHANGED concVars
    /\ UNCHANGED fs
    /\ UNCHANGED sqlText
    /\ LET j == NextPending(idx, applied)
       IN IF j > Len(migrations)
          THEN /\ result' = [op |-> "Migrate", err |-> "nil", version |-> 0]
               /\ pc' = "done"
               /\ idx' = j
               /\ UNCHANGED <<cur, txVars, log>>
          ELSE \E ok \in BOOLEAN :
               IF ok
               THEN /\ TxBegin
                    /\ cur' = migrations[j]
                    /\ idx' = j
                    /\ log' = Append(log, Ev("begin", 0))
                    /\ pc' = "m_up"
                    /\ UNCHANGED result
               ELSE /\ result' = [op |-> "Migrate", err |-> "begin",
                                  version |-> 0]
                    /\ pc' = "done"
                    /\ idx' = j
                    /\ UNCHANGED <<cur, txVars, log>>
    /\ UNCHANGED stepVars
    /\ UNCHANGED <<dir, migratorVars, dbVars, now, applied, pre>>

\* tx.Exec(migration.UpSQL)
MigrateExecUp ==
    /\ pc = "m_up"
    /\ UNCHANGED last
    /\ UNCHANGED parseVars
    /\ UNCHANGED concVars
    /\ UNCHANGED fs
    /\ UNCHANGED sqlText
    /\ log' = Append(log, Ev("up", cur.Version))
    /\ \E ok \in BOOLEAN :
       IF ok
       THEN /\ txSchema' = ExecSQL(cur.UpSQL, txSchema)
            /\ pc' = "m_insert"
            /\ UNCHANGED <<txOpen, txRows, rows, schema, result, idx>>
       ELSE /\ TxRollback
            /\ OnApplyError(cur.Version)
    /\ UNCHANGED stepVars
    /\ UNCHANGED <<dir, migratorVars, tableExists, now, applied, cur, pre>>

\* tx.Exec(insertSQL, migration.Version, migration.Name, time.Now())
MigrateInsert ==
    /\ pc = "m_insert"
    /\ UNCHANGED last
    /\ UNCHANGED parseVars
    /\ UNCHANGED concVars
    /\ UNCHANGED fs
    /\ sqlText' = insertSQL(dbType)
    /\ log' = Append(log, Ev("insert", cur.Version))
    /\ \E ok \in BOOLEAN, t \in ClockAfter(now) :
       IF ok /\ cur.Version \notin DOMAIN txRows
       THEN /\ txRows' = InsertRow(txRows, cur, t)
            /\ now' = t
            /\ pc' = "m_commit"
            /\ UNCHANGED <<txOpen, txSchema, rows, schema, result>>
       ELSE /\ TxRollback
            /\ result' = [op |-> "Migrate", err |-> "record",
                          version |-> cur.Version]
            /\ pc' = "done"
            /\ UNCHANGED now
    /\ UNCHANGED stepVars
    /\ UNCHANGED <<dir, migratorVars, tableExists, applied, idx, cur, pre>>

\* tx.Commit()
MigrateCommit ==
    /\ pc = "m_commit"
    /\ UNCHANGED last
    /\ UNCHANGED parseVars
    /\ UNCHANGED concVars
    /\ UNCHANGED fs
    /\ UNCHANGED sqlText
    /\ log' = Append(log, Ev("commit", cur.Version))
    /\ \E ok \in BOOLEAN :
       IF ok
       THEN /\ TxCommit
            /\ idx' = idx + 1
            /\ pc' = "m_loop"
            /\ UNCHANGED result
       ELSE /\ TxCommitFailed
            /\ result' = [op |-> "Migrate", err |-> "commit", version |-> 0]
            /\ pc' = "done"
            /\ UNCHANGED idx
    /\ UNCHANGED stepVars
    /\ UNCHANGED <<dir, migratorVars, tableExists, now, applied, cur, pre>>

\* ----------------------------------------------------------- Rollback
\* faulty variant of LastApplied: the highest version instead of the latest appliedAt
LastAppliedByVersion(ap) ==
    IF DOMAIN ap = {} THEN {0} ELSE {Max(DOMAIN ap)}

\* the loop "if appliedAt.After(lastAppliedAt)" over the applied map, whose
\* iteration order is not fixed: the versions it may end on
LastApplied(ap) ==
    LET S == {v \in DOMAIN ap :
                 ap[v] > 0 /\ \A w \in DOMAIN ap : ap[w] <= ap[v]}
    IN IF S = {} THEN {0} ELSE S

\* "Find migration object": position of the first entry with that version
FindMigration(v) ==
    LET P == {j \in 1..Len(migrations) : migrations[j].Version = v}
    IN IF P = {} THEN 0 ELSE CHOOSE j \in P : \A k \in P : j <= k

\* faulty variant of NothingApplied: the emptiness check is missing
NothingAppliedNever(ap) == DOMAIN ap # DOMAIN ap

\* if len(applied) == 0
NothingApplied(ap) == DOMAIN ap = {}

\* Rollback up to the lookup of the migration object
RollbackCall ==
    /\ pc = "idle"
    /\ UNCHANGED last
    /\ UNCHANGED parseVars
    /\ UNCHANGED concVars
    /\ UNCHANGED fs
    /\ UNCHANGED sqlText
    /\ log' = <<>>
    /\ pre' = [rows |-> rows, schema |-> schema]
    /\ IF ~getDialect(dbType)
       THEN /\ result' = [op |-> "Rollback", err |-> "unsupported",
                          version |-> 0]
            /\ pc' = "done"
            /\ UNCHANGED <<applied, cur>>
       ELSE IF QueryFails
       THEN /\ result' = [op |-> "Rollback", err |-> "query", version |-> 0]
            /\ pc' = "done"
            /\ UNCHANGED <<applied, cur>>
       ELSE /\ applied' = GetAppliedMigrations
            /\ IF NothingApplied(applied')
               THEN /\ result' = [op |-> "Rollback", err |-> "nothing",
                                  version |-> 0]
                    /\ pc' = "done"
                    /\ UNCHANGED cur
               ELSE \E lastVersion \in LastApplied(applied') :
                    LET j == FindMigration(lastVersion)
                    IN IF j = 0
                       THEN /\ result' = [op |-> "Rollback",
                                          err |-> "notfound",
                                          version |-> lastVersion]
                            /\ pc' = "done"
                            /\ UNCHANGED cur
                       ELSE /\ cur' = migrations[j]
                            /\ result' = NoResult
                            /\ pc' = "r_begin"
    /\ UNCHANGED stepVars
    /\ UNCHANGED <<dir, migratorVars, dbVars, now, idx, txVars>>

\* m.db.Begin()
RollbackBegin ==
    /\ pc = "r_begin"
    /\ UNCHANGED last
    /\ UNCHANGED parseVars
    /\ UNCHANGED concVars
    /\ UNCHANGED fs
    /\ UNCHANGED sqlText
    /\ \E ok \in BOOLEAN :
       IF ok
       THEN /\ TxBegin
            /\ log' = Append(log, Ev("begin", 0))
            /\ pc' = "r_down"
            /\ UNCHANGED result
       ELSE /\ result' = [op |-> "Rollback", err |-> "begin", version |-> 0]
            /\ pc' = "done"
            /\ UNCHANGED <<txVars, log>>
    /\ UNCHANGED stepVars
    /\ UNCHANGED <<dir, migratorVars, dbVars, now, localVars, pre>>

\* tx.Exec(migration.DownSQL)
RollbackExecDown ==
    /\ pc = "r_down"
    /\ UNCHANGED last
    /\ UNCHANGED parseVars
    /\ UNCHANGED concVars
    /\ UNCHANGED fs
    /\ UNCHANGED sqlText
    /\ log' = Append(log, Ev("down", cur.Version))
    /\ \E ok \in BOOLEAN :
       IF ok
       THEN /\ txSchema' = ExecSQL(cur.DownSQL, txSchema)
            /\ pc' = "r_delete"
            /\ UNCHANGED <<txOpen, txRows, rows, schema, result>>
       ELSE /\ TxRollback
            /\ result' = [op |-> "Rollback", err |-> "rollback",
                          version |-> cur.Version]
            /\ pc' = "done"
    /\ UNCHANGED stepVars
    /\ UNCHANGED <<dir, migratorVars, tableExists, now, localVars, pre>>

\* tx.Exec(deleteSQL, lastVersion)
RollbackDelete ==
    /\ pc = "r_delete"
    /\ UNCHANGED last
    /\ UNCHANGED parseVars
    /\ UNCHANGED concVars
    /\ UNCHANGED fs
    /\ sqlText' = deleteSQL(dbType)
    /\ log' = Append(log, Ev("delete", cur.Version))
    /\ \E ok \in BOOLEAN :
       IF ok
       THEN /\ txRows' = DeleteRow(txRows, cur.Version)
            /\ pc' = "r_commit"
            /\ UNCHANGED <<txOpen, txSchema, rows, schema, result>>
       ELSE /\ TxRollback
            /\ result' = [op |-> "Rollback", err |-> "remove",
                          version |-> cur.Version]
            /\ pc' = "done"
    /\ UNCHANGED stepVars
    /\ UNCHANGED <<dir, migratorVars, tableExists, now, localVars, pre>>

\* tx.Commit()
RollbackCommit ==
    /\ pc = "r_commit"
    /\ UNCHANGED last
    /\ UNCHANGED parseVars
    /\ UNCHANGED concVars
    /\ UNCHANGED fs
    /\ UNCHANGED sqlText
    /\ log' = Append(log, Ev("commit", cur.Version))
    /\ pc' = "done"
    /\ \E ok \in BOOLEAN :
       IF ok
       THEN /\ TxCommit
            /\ result' = [op |-> "Rollback", err |-> "nil", version |-> 0]
       ELSE /\ TxCommitFailed
            /\ result' = [op |-> "Rollback", err |-> "commit", version |-> 0]
    /\ UNCHANGED stepVars
    /\ UNCHANGED <<dir, migratorVars, tableExists, now, localVars, pre>>

\* ---------------------------------------------------- rollback(steps)
\* faulty variant of ClampMin: steps is used as given
ClampMinMissing(steps) == steps

\* step 1: steps is clamped to at least 1
ClampMin(steps) == IF steps < 1 THEN 1 ELSE steps

\* step 4: steps is clamped to the size of the candidate list
ClampToList(steps, n) == IF steps > n THEN n ELSE steps

\* faulty variant of RollbackCandidates: sorted ascending by appliedAt
RollbackCandidatesAscending(ap) ==
    LET S == CatalogVersions \cap DOMAIN ap
        n == Cardinality(S)
    IN {s \in [1..n -> S] :
           \A i, j \in 1..n : i < j => (s[i] # s[j] /\ ap[s[i]] <= ap[s[j]])}

\* step 3: the catalog versions that are applied, sorted descending by
\* appliedAt; equal timestamps may come in either order
RollbackCandidates(ap) ==
    LET S == CatalogVersions \cap DOMAIN ap
        n == Cardinality(S)
    IN {s \in [1..n -> S] :
           \A i, j \in 1..n : i < j => (s[i] # s[j] /\ ap[s[i]] >= ap[s[j]])}

\* the next selected migration, and where the batch continues
StepCur(t) == IF t = <<>> THEN NoMigration
              ELSE migrations[FindMigration(Head(t))]
StepPc(t) == IF t = <<>> THEN "s_commit" ELSE "s_down"

\* faulty variant of OnRollbackStepError: the steps done so far are committed
OnRollbackStepErrorCommits(v) ==
    /\ TxCommit
    /\ result' = [op |-> "RollbackSteps", err |-> "rollback", version |-> v]
    /\ pc' = "done"

\* step 5: a failing step fails the transaction and surfaces
\* MigrationRollbackError{version}
OnRollbackStepError(v) ==
    /\ TxRollback
    /\ result' = [op |-> "RollbackSteps", err |-> "rollback", version |-> v]
    /\ pc' = "done"

\* steps 1 to 4: clamp, read the applied set, select the batch
RollbackStepsCall(steps) ==
    /\ pc = "idle"
    /\ UNCHANGED last
    /\ UNCHANGED parseVars
    /\ UNCHANGED concVars
    /\ UNCHANGED fs
    /\ UNCHANGED sqlText
    /\ arg' = steps
    /\ log' = <<>>
    /\ pre' = [rows |-> rows, schema |-> schema]
    /\ IF ~getDialect(dbType)
       THEN /\ result' = [op |-> "RollbackSteps", err |-> "unsupported",
                          version |-> 0]
            /\ pc' = "done"
            /\ UNCHANGED <<applied, todo>>
       ELSE IF QueryFails
       THEN /\ result' = [op |-> "RollbackSteps", err |-> "query",
                          version |-> 0]
            /\ pc' = "done"
            /\ UNCHANGED <<applied, todo>>
       ELSE /\ applied' = GetAppliedMigrations
            /\ IF NothingApplied(applied')
               THEN /\ result' = [op |-> "RollbackSteps", err |-> "nothing",
                                  version |-> 0]
                    /\ pc' = "done"
                    /\ UNCHANGED todo
               ELSE \E order \in RollbackCandidates(applied') :
                    /\ todo' = SubSeq(order, 1,
                                  ClampToList(ClampMin(steps), Len(order)))
                    /\ result' = NoResult
                    /\ pc' = "s_begin"
    /\ UNCHANGED <<dir, migratorVars, dbVars, now, idx, cur, txVars>>

\* step 5: open the single transaction of the batch
RollbackStepsBegin ==
    /\ pc = "s_begin"
    /\ UNCHANGED last
    /\ UNCHANGED parseVars
    /\ UNCHANGED concVars
    /\ UNCHANGED fs
    /\ UNCHANGED sqlText
    /\ \E ok \in BOOLEAN :
       IF ok
       THEN /\ TxBegin
            /\ log' = Append(log, Ev("begin", 0))
            /\ cur' = StepCur(todo)
            /\ pc' = StepPc(todo)
            /\ UNCHANGED result
       ELSE /\ result' = [op |-> "RollbackSteps", err |-> "begin",
                          version |-> 0]
            /\ pc' = "done"
            /\ UNCHANGED <<txVars, log, cur>>
    /\ UNCHANGED <<dir, migratorVars, dbVars, now, applied, idx, pre,
                   stepVars>>

\* step 5: execute downSQL of the selected migration
RollbackStepsExecDown ==
    /\ pc = "s_down"
    /\ UNCHANGED last
    /\ UNCHANGED parseVars
    /\ UNCHANGED concVars
    /\ UNCHANGED fs
    /\ UNCHANGED sqlText
    /\ log' = Append(log, Ev("down", cur.Version))
    /\ \E ok \in BOOLEAN :
       IF ok
       THEN /\ txSchema' = ExecSQL(cur.DownSQL, txSchema)
            /\ pc' = "s_delete"
            /\ UNCHANGED <<txOpen, txRows, rows, schema, result>>
       ELSE OnRollbackStepError(cur.Version)
    /\ UNCHANGED <<dir, migratorVars, tableExists, now, localVars, pre,
                   stepVars>>

\* step 5: delete its AppliedRecord row, go on with the next one
RollbackStepsDelete ==
    /\ pc = "s_delete"
    /\ UNCHANGED last
    /\ UNCHANGED parseVars
    /\ UNCHANGED concVars
    /\ UNCHANGED fs
    /\ sqlText' = deleteSQL(dbType)
    /\ log' = Append(log, Ev("delete", cur.Version))
    /\ \E ok \in BOOLEAN :
       IF ok
       THEN /\ txRows' = DeleteRow(txRows, cur.Version)
            /\ todo' = Tail(todo)
            /\ cur' = StepCur(Tail(todo))
            /\ pc' = StepPc(Tail(todo))
            /\ UNCHANGED <<txOpen, txSchema, rows, schema, result>>
       ELSE /\ OnRollbackStepError(cur.Version)
            /\ UNCHANGED <<todo, cur>>
    /\ UNCHANGED <<dir, migratorVars, tableExists, now, applied, idx, pre,
                   arg>>

\* step 6: commit the transaction
RollbackStepsCommit ==
    /\ pc = "s_commit"
    /\ UNCHANGED last
    /\ UNCHANGED parseVars
    /\ UNCHANGED concVars
    /\ UNCHANGED fs
    /\ UNCHANGED sqlText
    /\ log' = Append(log, Ev("commit", 0))
    /\ pc' = "done"
    /\ \E ok \in BOOLEAN :
       IF ok
       THEN /\ TxCommit
            /\ result' = [op |-> "RollbackSteps", err |-> "nil",
                          version |-> 0]
       ELSE /\ TxCommitFailed
            /\ result' = [op |-> "RollbackSteps", err |-> "commit",
                          version |-> 0]
    /\ UNCHANGED <<dir, migratorVars, tableExists, now, localVars, pre,
                   stepVars>>

\* ------------------------------------------------------ specification
Next ==
    \/ \E v \in Versions : WriteMigrationFiles(v)
    \/ \E v \in Versions : RemoveMigrationFiles(v)
    \/ New
    \/ MigratorInit
    \/ LoadMigrations
    \/ MigrateCall
    \/ MigrateNext
    \/ MigrateExecUp
    \/ MigrateInsert
    \/ MigrateCommit
    \/ RollbackCall
    \/ RollbackBegin
    \/ RollbackExecDown
    \/ RollbackDelete
    \/ RollbackCommit
    \/ Return

Spec == Init /\ [][Next]_vars

\* the engine with rollback(steps) in place of the one-step Rollback
NextSteps ==
    \/ \E v \in Versions : WriteMigrationFiles(v)
    \/ New
    \/ MigratorInit
    \/ LoadMigrations
    \/ MigrateCall
    \/ MigrateNext
    \/ MigrateExecUp
    \/ MigrateInsert
    \/ MigrateCommit
    \/ \E steps \in StepsInputs : RollbackStepsCall(steps)
    \/ RollbackStepsBegin
    \/ RollbackStepsExecDown
    \/ RollbackStepsDelete
    \/ RollbackStepsCommit
    \/ Return

SpecSteps == Init /\ [][NextSteps]_vars

\* the file name parser on its own, on every well-formed file name
InitParse ==
    /\ inst = NoInst
    /\ store = NoStore
    /\ dir = {} /\ dbType = "sqlite3" /\ migrations = <<>> /\ loads = 0
    /\ tableExists = FALSE /\ rows = NoRows /\ schema = {} /\ now = 1
    /\ pc = "idle" /\ applied = NoRows /\ idx = 0 /\ cur = NoMigration
    /\ txOpen = FALSE /\ txRows = NoRows /\ txSchema = {} /\ log = <<>>
    /\ result = NoResult /\ pre = NoPre /\ arg = 0 /\ todo = <<>>
    /\ last = NoLast
    /\ sqlText = NoSQL
    /\ fs = NoFS
    /\ pin \in [v : 0..MaxParseVersion, width : Widths, tokens : NameTokens,
                 d : {Up, Down}]
    /\ fname = MakeFileName(pin.v, pin.width, pin.tokens, pin.d)
    /\ parsed = NoParse
    /\ defect = NoDefect

NextParse == ParseFilename

SpecParse == InitParse /\ [][NextParse]_vars

\* the file name parser on malformed file names
InitMalformed ==
    /\ inst = NoInst
    /\ store = NoStore
    /\ dir = {} /\ dbType = "sqlite3" /\ migrations = <<>> /\ loads = 0
    /\ tableExists = FALSE /\ rows = NoRows /\ schema = {} /\ now = 1
    /\ pc = "idle" /\ applied = NoRows /\ idx = 0 /\ cur = NoMigration
    /\ txOpen = FALSE /\ txRows = NoRows /\ txSchema = {} /\ log = <<>>
    /\ result = NoResult /\ pre = NoPre /\ arg = 0 /\ todo = <<>>
    /\ last = NoLast
    /\ sqlText = NoSQL
    /\ fs = NoFS
    /\ pin \in [v : 0..MaxParseVersion, width : Widths, tokens : NameTokens,
                 d : {Up, Down}]
    /\ defect \in Defects
    /\ fname = Malformed(pin, defect)
    /\ parsed = NoParse

SpecMalformed == InitMalformed /\ [][NextParse]_vars

\* LoadMigrations on directories of at most MaxFiles named entries
InitLoad ==
    /\ inst = NoInst
    /\ store = NoStore
    /\ dir = {} /\ dbType = "sqlite3" /\ migrations = <<>> /\ loads = 0
    /\ tableExists = FALSE /\ rows = NoRows /\ schema = {} /\ now = 1
    /\ pc = "idle" /\ applied = NoRows /\ idx = 0 /\ cur = NoMigration
    /\ txOpen = FALSE /\ txRows = NoRows /\ txSchema = {} /\ log = <<>>
    /\ result = NoResult /\ pre = NoPre /\ arg = 0 /\ todo = <<>>
    /\ last = NoLast
    /\ sqlText = NoSQL
    /\ pin = NoPin /\ fname = <<>> /\ parsed = NoParse /\ defect = NoDefect
    /\ \E S \in SUBSET FileNames :
           /\ Cardinality(S) <= MaxFiles
           /\ \E R \in SUBSET S, l \in BOOLEAN :
                  fs = [listable |-> l, entries |-> ReadDir(S, R)]

NextLoad ==
    \/ LoadMigrationFiles
    \/ Return
    \/ \E k \in 1..MaxFiles : ChmodFile(k)
    \/ ChmodDir

SpecLoad == InitLoad /\ [][NextLoad]_vars

\* the engine on directories in which a version may have one direction only
InitPartial ==
    /\ inst = NoInst
    /\ store = NoStore
    /\ dir = {} /\ dbType = "sqlite3" /\ migrations = <<>> /\ loads = 0
    /\ tableExists = FALSE /\ rows = NoRows /\ schema = {} /\ now = 1
    /\ pc = "idle" /\ applied = NoRows /\ idx = 0 /\ cur = NoMigration
    /\ txOpen = FALSE /\ txRows = NoRows /\ txSchema = {} /\ log = <<>>
    /\ result = NoResult /\ pre = NoPre /\ arg = 0 /\ todo = <<>>
    /\ last = NoLast
    /\ sqlText = NoSQL
    /\ pin = NoPin /\ fname = <<>> /\ parsed = NoParse /\ defect = NoDefect
    /\ \E S \in SUBSET ParsedFileNames :
           /\ Cardinality(S) <= MaxFiles
           /\ fs = [listable |-> TRUE, entries |-> ReadDir(S, S)]

NextPartial ==
    \/ MigratorInit
    \/ LoadMigrationFiles
    \/ MigrateCall
    \/ MigrateNext
    \/ MigrateExecUp
    \/ MigrateInsert
    \/ MigrateCommit
    \/ RollbackCall
    \/ RollbackBegin
    \/ RollbackExecDown
    \/ RollbackDelete
    \/ RollbackCommit
    \/ Return

SpecPartial == InitPartial /\ [][NextPartial]_vars

\* the engine on a directory that does not change, with a clock that gives
\* every recorded row a time after the times of all rows recorded before it
InitStrict ==
    /\ inst = NoInst
    /\ store = NoStore
    /\ pin = NoPin
    /\ fname = <<>>
    /\ parsed = NoParse
    /\ defect = NoDefect
    /\ dir \in SUBSET Versions
    /\ dbType \in DbTypes
    /\ migrations = <<>>
    /\ loads = 0
    /\ tableExists = FALSE
    /\ rows = NoRows
    /\ schema = {}
    /\ now = 1
    /\ pc = "idle"
    /\ applied = NoRows
    /\ idx = 0
    /\ cur = NoMigration
    /\ txOpen = FALSE
    /\ txRows = NoRows
    /\ txSchema = {}
    /\ log = <<>>
    /\ result = NoResult
    /\ pre = NoPre
    /\ arg = 0
    /\ todo = <<>>
    /\ last = NoLast
    /\ sqlText = NoSQL
    /\ fs = NoFS

\* time.Now() of an insert is after the appliedAt of every row recorded so far
StrictlyLater ==
    \A v \in DOMAIN txRows' \ DOMAIN txRows :
        \A w \in DOMAIN txRows : txRows[w].appliedAt < txRows'[v].appliedAt

NextStrict ==
    \/ New
    \/ MigratorInit
    \/ LoadMigrations
    \/ MigrateCall
    \/ MigrateNext
    \/ MigrateExecUp
    \/ MigrateInsert /\ StrictlyLater
    \/ MigrateCommit
    \/ RollbackCall
    \/ RollbackBegin
    \/ RollbackExecDown
    \/ RollbackDelete
    \/ RollbackCommit
    \/ Return

SpecStrict == InitStrict /\ [][NextStrict]_vars

\* ------------------------------------------- two Migrators, one database
\* two Migrator values in separate processes: nothing in Migrate locks
Instances == {1, 2}

IdleInstance ==
    [pc |-> "idle", applied |-> NoRows, idx |-> 0, cur |-> NoMigration,
     txOpen |-> FALSE, txUp |-> {}, txRow |-> {}, result |-> NoResult]

\* versions with a committed row in schema_migrations
Recorded(table) == {table[i].version : i \in 1..Len(table)}

\* SELECT version, applied_at FROM schema_migrations, on the shared table
GetAppliedFrom(table) == [v \in Recorded(table) |-> 1]

\* rows of version v that other open transactions have inserted
HeldByOther(p, v) ==
    \E q \in Instances \ {p} : inst[q].txOpen /\ v \in inst[q].txRow

\* faulty variant of PrimaryKeyAllows: version is not a key of the table
PrimaryKeyNotDeclared(p, v) == TRUE

\* version INTEGER PRIMARY KEY: an insert of v goes through when no row of v
\* is committed and no other open transaction has inserted one
PrimaryKeyAllows(p, v) == v \notin Recorded(store.table) /\ ~HeldByOther(p, v)

\* the transaction of p ends without effect and Migrate returns the error
ConcFail(p, e, v) ==
    inst' = [inst EXCEPT ![p].txOpen = FALSE, ![p].txUp = {},
                         ![p].txRow = {}, ![p].pc = "done",
                         ![p].result = [op |-> "Migrate", err |-> e,
                                        version |-> v]]

\* everything but the two Migrators and their database
engineVars == <<dir, migratorVars, dbVars, now, pc, localVars, txVars, log,
                result, pre, stepVars, last, parseVars, sqlText, fs>>

\* Migrate of p up to the loop: the applied set is read once
ConcMigrateCall(p) ==
    /\ inst[p].pc = "idle"
    /\ IF ~getDialect(dbType)
       THEN inst' = [inst EXCEPT ![p].pc = "done",
                        ![p].result = [op |-> "Migrate", err |-> "unsupported",
                                       version |-> 0]]
       ELSE IF QueryFails
       THEN inst' = [inst EXCEPT ![p].pc = "done",
                        ![p].result = [op |-> "Migrate", err |-> "query",
                                       version |-> 0]]
       ELSE inst' = [inst EXCEPT ![p].applied = GetAppliedFrom(store.table),
                                 ![p].idx = 1, ![p].pc = "m_loop"]
    /\ UNCHANGED store
    /\ UNCHANGED engineVars

\* the for loop of p: skip applied entries, db.Begin for the next pending one
ConcMigrateNext(p) ==
    /\ inst[p].pc = "m_loop"
    /\ LET j == NextPending(inst[p].idx, inst[p].applied)
       IN IF j > Len(migrations)
          THEN inst' = [inst EXCEPT ![p].pc = "done", ![p].idx = j,
                           ![p].result = [op |-> "Migrate", err |-> "nil",
                                          version |-> 0]]
          ELSE \E ok \in BOOLEAN :
               IF ok
               THEN inst' = [inst EXCEPT ![p].txOpen = TRUE,
                                ![p].cur = migrations[j], ![p].idx = j,
                                ![p].pc = "m_up"]
               ELSE inst' = [inst EXCEPT ![p].pc = "done", ![p].idx = j,
                                ![p].result = [op |-> "Migrate",
                                               err |-> "begin",
                                               version |-> 0]]
    /\ UNCHANGED store
    /\ UNCHANGED engineVars

\* tx.Exec(migration.UpSQL) of p
ConcMigrateExecUp(p) ==
    /\ inst[p].pc = "m_up"
    /\ \E ok \in BOOLEAN :
       IF ok
       THEN inst' = [inst EXCEPT ![p].txUp = @ \cup {inst[p].cur.Version},
                                 ![p].pc = "m_insert"]
       ELSE ConcFail(p, "apply", inst[p].cur.Version)
    /\ UNCHANGED store
    /\ UNCHANGED engineVars

\* tx.Exec(insertSQL, ...) of p: it succeeds only when the primary key allows
\* the row, and like every statement it may fail
ConcMigrateInsert(p) ==
    /\ inst[p].pc = "m_insert"
    /\ \/ /\ PrimaryKeyAllows(p, inst[p].cur.Version)
          /\ inst' = [inst EXCEPT ![p].txRow = @ \cup {inst[p].cur.Version},
                                  ![p].pc = "m_commit"]
       \/ ConcFail(p, "record", inst[p].cur.Version)
    /\ UNCHANGED store
    /\ UNCHANGED engineVars

\* rows and up-SQL effects of a transaction, in the order of the versions
RECURSIVE Committed(_, _)
Committed(S, p) ==
    IF S = {} THEN <<>>
    ELSE LET v == CHOOSE x \in S : \A y \in S : x <= y
         IN <<[version |-> v, by |-> p]>> \o Committed(S \ {v}, p)

\* tx.Commit() of p
ConcMigrateCommit(p) ==
    /\ inst[p].pc = "m_commit"
    /\ \E ok \in BOOLEAN :
       IF ok
       THEN /\ store' = [table |-> store.table \o Committed(inst[p].txRow, p),
                         effects |->
                             store.effects \o Committed(inst[p].txUp, p)]
            /\ inst' = [inst EXCEPT ![p].txOpen = FALSE, ![p].txUp = {},
                                    ![p].txRow = {}, ![p].idx = @ + 1,
                                    ![p].pc = "m_loop"]
       ELSE /\ ConcFail(p, "commit", 0)
            /\ UNCHANGED store
    /\ UNCHANGED engineVars

\* both Migrators hold the catalog of the same directory, loaded once, and
\* Init has created the state table
InitConcurrent ==
    /\ inst = [p \in Instances |-> IdleInstance]
    /\ store = NoStore
    /\ pin = NoPin
    /\ fname = <<>>
    /\ parsed = NoParse
    /\ defect = NoDefect
    /\ dir \in SUBSET Versions
    /\ dbType \in Dialects
    /\ migrations = SortByVersion(AppendAll(<<>>, dir))
    /\ loads = 1
    /\ tableExists = TRUE
    /\ rows = NoRows
    /\ schema = {}
    /\ now = 1
    /\ pc = "idle"
    /\ applied = NoRows
    /\ idx = 0
    /\ cur = NoMigration
    /\ txOpen = FALSE
    /\ txRows = NoRows
    /\ txSchema = {}
    /\ log = <<>>
    /\ result = NoResult
    /\ pre = NoPre
    /\ arg = 0
    /\ todo = <<>>
    /\ last = NoLast
    /\ sqlText = NoSQL
    /\ fs = NoFS

NextConcurrent ==
    \/ \E p \in Instances : ConcMigrateCall(p)
    \/ \E p \in Instances : ConcMigrateNext(p)
    \/ \E p \in Instances : ConcMigrateExecUp(p)
    \/ \E p \in Instances : ConcMigrateInsert(p)
    \/ \E p \in Instances : ConcMigrateCommit(p)

SpecConcurrent == InitConcurrent /\ [][NextConcurrent]_vars

\* ------------------------------------------------ the create command
\* values of the -name flag
CreateNames == {A, B}

EntryNames(entries) == {entries[k].name : k \in 1..Len(entries)}

\* createMigrationFiles: version := len(files)/2 + 1, then the up file and
\* the down file are written; os.WriteFile replaces a file of the same name
createMigrationFiles(name) ==
    /\ pc = "idle"
    /\ Len(fs.entries) + 2 <= MaxFiles
    /\ pre' = [rows |-> rows, schema |-> schema, entries |-> fs.entries]
    /\ IF ~fs.listable
       THEN /\ result' = [op |-> "create", err |-> "io", version |-> 0]
            /\ UNCHANGED fs
       ELSE LET version == Len(fs.entries) \div 2 + 1
                upFile == MakeFileName(version, 3, <<name>>, Up)
                downFile == MakeFileName(version, 3, <<name>>, Down)
                old == EntryNames(fs.entries)
            IN \E upOk, downOk \in BOOLEAN :
               IF ~upOk
               THEN /\ result' = [op |-> "create", err |-> "io",
                                  version |-> version]
                    /\ UNCHANGED fs
               ELSE IF ~downOk
               THEN /\ result' = [op |-> "create", err |-> "io",
                                  version |-> version]
                    /\ fs' = [fs EXCEPT !.entries =
                                 ReadDir(old \cup {upFile}, old \cup {upFile})]
               ELSE /\ result' = [op |-> "create", err |-> "nil",
                                  version |-> version]
                    /\ fs' = [fs EXCEPT !.entries =
                                 ReadDir(old \cup {upFile, downFile},
                                         old \cup {upFile, downFile})]
    /\ UNCHANGED <<dir, migratorVars, dbVars, now, pc, localVars, txVars, log,
                   stepVars, last, parseVars, sqlText, concVars>>

\* the operator deletes the k-th file of the directory
DeleteFile(k) ==
    /\ pc = "idle"
    /\ k \in 1..Len(fs.entries)
    /\ LET left == EntryNames(fs.entries) \ {fs.entries[k].name}
       IN fs' = [fs EXCEPT !.entries = ReadDir(left, left)]
    /\ result' = NoResult
    /\ pre' = NoPre
    /\ UNCHANGED <<dir, migratorVars, dbVars, now, pc, localVars, txVars, log,
                   stepVars, last, parseVars, sqlText, concVars>>

\* the create command on a directory that starts empty
InitCreate ==
    /\ inst = NoInst
    /\ store = NoStore
    /\ dir = {} /\ dbType \in DbTypes /\ migrations = <<>> /\ loads = 0
    /\ tableExists = FALSE /\ rows = NoRows /\ schema = {} /\ now = 1
    /\ pc = "idle" /\ applied = NoRows /\ idx = 0 /\ cur = NoMigration
    /\ txOpen = FALSE /\ txRows = NoRows /\ txSchema = {}
    /\ log = <<>> /\ result = NoResult /\ pre = NoPre
    /\ arg = 0 /\ todo = <<>> /\ last = NoLast
    /\ pin = NoPin /\ fname = <<>> /\ parsed = NoParse /\ defect = NoDefect
    /\ sqlText = NoSQL
    /\ fs = NoFS

NextCreate ==
    \/ \E name \in CreateNames : createMigrationFiles(name)
    \/ \E k \in 1..MaxFiles : DeleteFile(k)

SpecCreate == InitCreate /\ [][NextCreate]_vars

\* ============================================================= claims
Finished(op) == pc = "done" /\ result.op = op

Events(e) == {i \in 1..Len(log) : log[i].e = e}

\* versions of the catalog that were not applied when the call started
PendingAtCall == CatalogVersions \ DOMAIN pre.rows

\* C1: after a successful Migrate the applied set is the applied set before
\* the call united with all catalog versions; for a catalog {1,2} on an
\* empty state table GetAppliedMigrations then returns exactly {1,2}.
C1_MigrateAppliesCatalog ==
    (Finished("Migrate") /\ result.err = "nil") =>
        /\ DOMAIN rows = DOMAIN pre.rows \cup CatalogVersions
        /\ (CatalogVersions = {1, 2} /\ pre.rows = NoRows)
               => DOMAIN GetAppliedMigrations = {1, 2}

C1_Witness ==
    /\ Finished("Migrate") /\ result.err = "nil"
    /\ CatalogVersions = {1, 2}
    /\ pre.rows = NoRows
    /\ DOMAIN rows = {1, 2}

\* C2: Migrate called on an initialised database when no catalog version is
\* pending succeeds, issues no statement (no Begin, no up-SQL, no INSERT) and
\* leaves every row (version, name, appliedAt) and the schema unchanged.
C2_MigrateIdempotent ==
    (Finished("Migrate") /\ getDialect(dbType) /\ tableExists
        /\ PendingAtCall = {}) =>
        /\ result.err = "nil"
        /\ log = <<>>
        /\ ~txOpen
        /\ rows = pre.rows
        /\ schema = pre.schema

C2_Witness ==
    /\ Finished("Migrate") /\ result.err = "nil"
    /\ CatalogVersions = {1, 2}
    /\ DOMAIN pre.rows = {1, 2}
    /\ rows = pre.rows

\* C3: when the up-SQL of pending version v fails, Migrate returns the apply
\* error of v; every catalog version below v is applied, v and every pending
\* version above v are unapplied, and no up-SQL of a version above v was
\* executed in the call.
C3_MigrateStopsAtFailure ==
    (Finished("Migrate") /\ result.err = "apply") =>
        LET v == result.version
        IN /\ log[Len(log)] = Ev("up", v)
           /\ v \in PendingAtCall
           /\ \A w \in CatalogVersions : w < v => w \in DOMAIN rows
           /\ \A w \in PendingAtCall : w >= v => w \notin DOMAIN rows
           /\ \A i \in Events("up") : log[i].v <= v

\* C4: in every state the committed effects of a version's up-SQL are
\* present exactly when its row in schema_migrations is present.
C4_ApplyAtomic ==
    \A v \in Versions : (v \in schema) <=> (v \in DOMAIN rows)

C4_Witness ==
    /\ Finished("Migrate")
    /\ result.err \in {"record", "commit"}
    /\ Events("commit") # {}
    /\ rows # NoRows

\* C5: a successful Rollback executes the down-SQL of, and deletes the row
\* of, exactly one migration, one whose appliedAt is the latest; every other
\* row is unchanged (rows {1,2} applied in that order become exactly {1}).
C5_RollbackRevertsLatest ==
    (Finished("Rollback") /\ result.err = "nil") =>
        /\ \E v \in DOMAIN pre.rows :
              /\ \A w \in DOMAIN pre.rows :
                     pre.rows[w].appliedAt <= pre.rows[v].appliedAt
              /\ rows = DeleteRow(pre.rows, v)
              /\ schema = pre.schema \ {v}
              /\ log = <<Ev("begin", 0), Ev("down", v), Ev("delete", v),
                         Ev("commit", v)>>
        /\ (/\ DOMAIN pre.rows = {1, 2}
            /\ pre.rows[1].appliedAt < pre.rows[2].appliedAt)
               => DOMAIN rows = {1}

C5_Witness ==
    /\ Finished("Rollback") /\ result.err = "nil"
    /\ DOMAIN pre.rows = {1, 2}
    /\ pre.rows[1].appliedAt < pre.rows[2].appliedAt
    /\ DOMAIN rows = {1}

\* C9: when the down-SQL or the row deletion of the migration being rolled
\* back fails, Rollback returns an error carrying that version, no
\* transaction stays open and the database is as it was before the call.
C9_RollbackFailureRestores ==
    (Finished("Rollback") /\ result.err \in {"rollback", "remove"}) =>
        /\ result.version = cur.Version
        /\ log[Len(log)].v = result.version
        /\ result.version \in DOMAIN rows
        /\ rows = pre.rows
        /\ schema = pre.schema
        /\ ~txOpen

C9_Witness ==
    /\ Finished("Rollback") /\ result.err = "remove"
    /\ Events("down") # {}
    /\ result.version \in pre.schema

\* C10: Rollback on an initialised database with no applied row returns
\* "no migrations to rollback", opens no transaction, issues no statement
\* and leaves the database unchanged.
C10_RollbackNothing ==
    (Finished("Rollback") /\ getDialect(dbType) /\ tableExists
        /\ pre.rows = NoRows) =>
        /\ result.err = "nothing"
        /\ log = <<>>
        /\ ~txOpen
        /\ rows = pre.rows
        /\ schema = pre.schema

C10_Witness ==
    /\ Finished("Rollback") /\ result.err = "nothing"
    /\ CatalogVersions # {}
    /\ schema = {}

\* rows the finished call deleted, and the applied catalog versions it
\* could choose from
Reverted == DOMAIN pre.rows \ DOMAIN rows
AppliedCatalog == CatalogVersions \cap DOMAIN pre.rows

Min2(a, b) == IF a < b THEN a ELSE b

\* positions of the log, in order, that executed a down-SQL
DownOrder == SelectSeq(log, LAMBDA ev : ev.e = "down")

C11_RollbackByAppliedAt ==
    (Finished("Rollback") /\ result.err = "nil") =>
        \A v \in DOMAIN pre.rows :
            (\A w \in DOMAIN pre.rows \ {v} :
                 pre.rows[w].appliedAt < pre.rows[v].appliedAt)
            => (DOMAIN rows = DOMAIN pre.rows \ {v}
                /\ Events("down") # {}
                /\ \A i \in Events("down") : log[i].v = v)

C11_Witness ==
    /\ Finished("Rollback") /\ result.err = "nil"
    /\ DOMAIN pre.rows = {1, 2}
    /\ pre.rows[2].appliedAt < pre.rows[1].appliedAt
    /\ DOMAIN rows = {2}


\* the applied catalog versions none of which was applied later
LatestAppliedCatalog ==
    {v \in AppliedCatalog :
        \A w \in AppliedCatalog : pre.rows[w].appliedAt <= pre.rows[v].appliedAt}

\* the most recently applied version has no catalog entry, another one has
LatestNotInCatalog ==
    /\ AppliedCatalog # {}
    /\ \E u \in DOMAIN pre.rows \ CatalogVersions :
           \A w \in DOMAIN pre.rows \ {u} :
               pre.rows[w].appliedAt < pre.rows[u].appliedAt

\* C12: when the most recently applied version has no catalog entry,
\* Rollback does not fail for the missing entry; it reverts the most recently
\* applied version that has a catalog entry.
C12_RollbackSkipsUncatalogued ==
    (Finished("Rollback") /\ getDialect(dbType) /\ tableExists
        /\ LatestNotInCatalog) =>
        /\ result.err # "notfound"
        /\ result.err = "nil" =>
               \E v \in LatestAppliedCatalog :
                   DOMAIN rows = DOMAIN pre.rows \ {v}


\* C13: Migrate with an empty catalog on an initialised database returns
\* nil, opens no transaction, executes no SQL and leaves the rows and the
\* schema as they were, whatever rows there are.
C13_MigrateEmptyCatalog ==
    (Finished("Migrate") /\ getDialect(dbType) /\ tableExists
        /\ migrations = <<>>) =>
        /\ result.err = "nil"
        /\ log = <<>>
        /\ ~txOpen
        /\ rows = pre.rows
        /\ schema = pre.schema

C13_Witness ==
    /\ Finished("Migrate") /\ result.err = "nil"
    /\ migrations = <<>>
    /\ DOMAIN rows = {1, 2}

\* C14: Rollback with an empty catalog rolls back nothing: no down-SQL is
\* executed, no row is deleted, and the call does not fail for a missing
\* catalog entry, also when rows are applied.
C14_RollbackEmptyCatalog ==
    (Finished("Rollback") /\ getDialect(dbType) /\ tableExists
        /\ migrations = <<>>) =>
        /\ Events("down") = {}
        /\ Events("delete") = {}
        /\ rows = pre.rows
        /\ schema = pre.schema
        /\ result.err # "notfound"

\* C15: Migrate and Rollback on a database without the state table return
\* the error of the failed state read before any transaction is opened or
\* any SQL is executed, and leave the database unchanged.
C15_NoStateTable ==
    ((Finished("Migrate") \/ Finished("Rollback"))
        /\ getDialect(dbType) /\ ~tableExists) =>
        /\ result.err = "query"
        /\ log = <<>>
        /\ ~txOpen
        /\ rows = NoRows /\ rows = pre.rows
        /\ schema = {} /\ schema = pre.schema

C15_Witness ==
    /\ Finished("Rollback") /\ result.err = "query"
    /\ ~tableExists
    /\ migrations # <<>>


\* C16: when a successful Rollback reverted a version while every catalog
\* version was applied, a successful Migrate that follows executes the up-SQL
\* of that version once and of no other version, and every catalog version
\* is applied again.
C16_RollbackMigrateRoundTrip ==
    (Finished("Migrate") /\ result.err = "nil"
        /\ last.full /\ last.reverted # {}) =>
        /\ CatalogVersions \subseteq DOMAIN rows
        /\ DOMAIN rows = DOMAIN pre.rows \cup last.reverted
        /\ {log[i].v : i \in Events("up")} = last.reverted
        /\ Cardinality(Events("up")) = 1

C16_Witness ==
    /\ Finished("Migrate") /\ result.err = "nil"
    /\ last.full /\ last.reverted = {2}
    /\ CatalogVersions = {1, 2}
    /\ DOMAIN rows = {1, 2}


\* rows the finished call inserted
NewlyApplied == DOMAIN rows \ DOMAIN pre.rows

\* C17: the versions one Migrate call applies get strictly increasing
\* appliedAt values in application order, so that afterwards exactly one row
\* is the latest and the choice of Rollback does not depend on the iteration
\* order over the applied map.
C17_AppliedAtStrictlyIncreasing ==
    Finished("Migrate") =>
        /\ \A i, j \in Events("insert") :
               (i < j /\ log[i].v # log[j].v
                   /\ log[i].v \in NewlyApplied /\ log[j].v \in NewlyApplied)
               => rows[log[i].v].appliedAt < rows[log[j].v].appliedAt
        /\ NewlyApplied # {} =>
               Cardinality(LastApplied(GetAppliedMigrations)) = 1

\* C18: in every state the catalog holds each version at most once and is
\* ordered strictly ascending by version.
C18_CatalogStrictlyAscending ==
    \A i, j \in 1..Len(migrations) :
        i < j => migrations[i].Version < migrations[j].Version


\* C20: parseMigrationFilename round-trips: for a version v >= 0, zero-padded
\* or not, a name joined from one or more tokens and a direction up or down,
\* parsing {v}_{name}_{direction}.sql returns (v, name, direction), no error.
C20_ParseRoundTrip ==
    parsed # NoParse =>
        parsed = [version |-> pin.v, name |-> Join(pin.tokens, "_"),
                  direction |-> pin.d, err |-> "nil"]

C20_Witness ==
    /\ parsed.err = "nil"
    /\ pin.v = 12 /\ pin.width = 3
    /\ Len(pin.tokens) = 2 /\ pin.tokens[2] = Up
    /\ pin.d = Down
    /\ parsed.version = 12


\* C19: each loaded Migration's name is the non-empty name slug parsed from
\* its file name (001_create_users_up.sql gives create_users), and that name
\* is the value stored in the name field of the applied record.
ParsedSlug(v) == parseMigrationFilename(MigrationFileName(v, Up)).name

C19_NameIsSlug ==
    /\ \A i \in 1..Len(migrations) :
           /\ migrations[i].Name # <<>>
           /\ migrations[i].Name = ParsedSlug(migrations[i].Version)
    /\ \A v \in DOMAIN rows : rows[v].name = ParsedSlug(v)


\* C21: parseMigrationFilename fails with the error of its kind for each kind
\* of malformed name: no .sql suffix (extension), fewer than three segments
\* (parts), a first segment that is not a number (version), a last segment
\* other than up or down (direction), an empty name (name).
C21_MalformedErrorKind ==
    (parsed # NoParse /\ defect # NoDefect) =>
        parsed = ParseError(defect.kind)

\* C22: a first segment that is not in its entirety a non-negative decimal
\* integer (a negative number, digits followed by other characters) is
\* rejected with the version error.
C22_VersionWholeSegment ==
    (parsed # NoParse /\ defect.kind = "version"
        /\ defect.alt \in {"negative", "trailing"}) =>
        parsed.err = "version"


\* C23 (as stated): the registry resolves each of postgres, mysql and sqlite,
\* so Init, Migrate and Rollback do not fail with the unsupported-dialect
\* error for any of the three.
C23_RegistryResolvesSqlite ==
    (pc = "done" /\ result.op \in {"Init", "Migrate", "Rollback"}
        /\ dbType \in {"postgres", "mysql", "sqlite"}) =>
        result.err # "unsupported"

\* C23 (amended): the registry resolves postgres, mysql and sqlite3, which
\* are the identifiers ParseDBURL derives from postgres, mysql and sqlite
\* URLs; Init, Migrate and Rollback do not fail with the unsupported-dialect
\* error for any of them.
C23_RegistryResolvesSqlite3 ==
    /\ {ParseDBURL(id) : id \in {"postgres", "mysql", "sqlite"}}
           = {"postgres", "mysql", "sqlite3"}
    /\ (pc = "done" /\ result.op \in {"Init", "Migrate", "Rollback"}
           /\ dbType \in {ParseDBURL(id) : id \in {"postgres", "mysql", "sqlite"}})
           => result.err # "unsupported"

C23_Witness ==
    /\ Finished("Migrate") /\ result.err = "nil"
    /\ dbType = ParseDBURL("sqlite")
    /\ DOMAIN rows = {1, 2}


\* C24: placeholder(i) is '$' followed by i for postgres and the token '?'
\* for every ordinal on the other dialects: the insert of the applied record
\* uses $1,$2,$3 on postgres and ?,?,? elsewhere, the rollback delete $1 or ?.
C24_Placeholders ==
    /\ sqlText.stmt = "insert" =>
           sqlText.params = IF dbType = "postgres"
                            THEN <<"$1", "$2", "$3">>
                            ELSE <<"?", "?", "?">>
    /\ sqlText.stmt = "delete" =>
           sqlText.params = IF dbType = "postgres" THEN <<"$1">> ELSE <<"?">>

C24_Witness ==
    /\ pc = "r_commit" /\ dbType = "postgres"
    /\ sqlText = [stmt |-> "delete", params |-> <<"$1">>]


\* what parseMigrationFilename returns for each file name of the directory
ParseOf == [n \in FileNames |-> parseMigrationFilename(n)]

\* entries of the directory that are not migration files: no .sql suffix, or
\* a name that fails to parse
NotMigrationFile(k) ==
    \/ ~HasSuffix(fs.entries[k].name, SqlSuffix)
    \/ ParseOf[fs.entries[k].name].err # "nil"

MigrationFiles == {k \in 1..Len(fs.entries) : ~NotMigrationFile(k)}
FileVersion(k) == ParseOf[fs.entries[k].name].version
FileDirection(k) == ParseOf[fs.entries[k].name].direction
FilesRead == {log[i].v : i \in Events("read")}

\* C25: LoadMigrations skips the entries without the .sql suffix and those
\* whose name fails to parse: their content is never read, they produce no
\* Migration, and they never make the load fail.
C25_SkipsNonMigrationFiles ==
    Finished("LoadMigrations") =>
        /\ \A k \in 1..Len(fs.entries) : NotMigrationFile(k) => k \notin FilesRead
        /\ result.err = "nil" =>
               Len(migrations) = Len(pre.migrations)
                   + Cardinality({FileVersion(k) : k \in MigrationFiles})
        /\ (fs.listable /\ \A k \in MigrationFiles : fs.entries[k].readable)
               => result.err = "nil"

C25_Witness ==
    /\ Finished("LoadMigrations") /\ result.err = "nil"
    /\ Len(fs.entries) = 4
    /\ Cardinality(MigrationFiles) = 1
    /\ \A k \in 1..Len(fs.entries) : NotMigrationFile(k) => ~fs.entries[k].readable
    /\ Len(migrations) = 1

\* C26: when the directory cannot be listed or a migration file cannot be
\* read, LoadMigrations fails with the I/O error and the catalog is exactly
\* what it was before the call.
C26_FailedLoadKeepsCatalog ==
    (Finished("LoadMigrations")
        /\ (~fs.listable \/ \E k \in MigrationFiles : ~fs.entries[k].readable)) =>
        /\ result.err = "io"
        /\ migrations = pre.migrations

C26_Witness ==
    /\ Finished("LoadMigrations") /\ result.err = "io"
    /\ fs.listable
    /\ pre.migrations # <<>>
    /\ \E k \in MigrationFiles : k > 1 /\ ~fs.entries[k].readable
                                  /\ fs.entries[1].readable /\ 1 \in MigrationFiles

\* C27: when two files parse to the same (version, direction), the load does
\* not fail for it and appends a single Migration for that version, whose
\* body for that direction is the content of the file listed last.
C27_LastReadWins ==
    (Finished("LoadMigrations") /\ result.err = "nil") =>
        \A j, k \in MigrationFiles :
            (j < k /\ FileVersion(j) = FileVersion(k)
                /\ FileDirection(j) = FileDirection(k)
                /\ ~\E l \in MigrationFiles :
                       l > k /\ FileVersion(l) = FileVersion(k)
                             /\ FileDirection(l) = FileDirection(k)) =>
                /\ Cardinality({i \in 1..Len(migrations) :
                                   migrations[i].Version = FileVersion(k)})
                       = 1 + Cardinality({i \in 1..Len(pre.migrations) :
                               pre.migrations[i].Version = FileVersion(k)})
                /\ \A i \in 1..Len(migrations) :
                       migrations[i].Version = FileVersion(k) =>
                           (IF FileDirection(k) = Up THEN migrations[i].UpSQL
                            ELSE migrations[i].DownSQL)
                               = Content(fs.entries[k].name)

C27_Witness ==
    /\ Finished("LoadMigrations") /\ result.err = "nil"
    /\ \E j, k \in MigrationFiles :
           /\ j < k /\ FileVersion(j) = 1 /\ FileVersion(k) = 1
           /\ FileDirection(j) = Up /\ FileDirection(k) = Up
    /\ Len(migrations) = 1
    /\ migrations[1].UpSQL = Content(MakeFileName(1, 1, <<B>>, Up))


\* C28: Init is idempotent: called any number of times, before or after
\* migrations were applied and between any Migrate and Rollback calls, it
\* succeeds and leaves the applied records and the schema untouched.
C28_InitIdempotent ==
    (Finished("Init") /\ getDialect(dbType)) =>
        /\ result.err = "nil"
        /\ tableExists
        /\ rows = pre.rows
        /\ schema = pre.schema

C28_Witness ==
    /\ Finished("Init") /\ result.err = "nil"
    /\ DOMAIN pre.rows = {1, 2}
    /\ DOMAIN rows = {1, 2}


\* versions whose transaction the running call committed before its last event
CommittedEarlier == {log[i].v : i \in {j \in Events("commit") : j < Len(log)}}

\* C29: when the commit of version v fails during Migrate, the call returns
\* an error and stops: v is not recorded, its up-SQL effects do not persist,
\* no later version is attempted, and the versions committed earlier in the
\* call remain applied.
C29_CommitFailureStops ==
    (Finished("Migrate") /\ result.err = "commit") =>
        /\ log[Len(log)].e = "commit"
        /\ log[Len(log)].v \notin CommittedEarlier
        /\ log[Len(log)].v \notin DOMAIN rows
        /\ DOMAIN rows = DOMAIN pre.rows \cup CommittedEarlier
        /\ schema = pre.schema \cup CommittedEarlier

C29_Witness ==
    /\ Finished("Migrate") /\ result.err = "commit"
    /\ CatalogVersions = {1, 2}
    /\ pre.rows = NoRows
    /\ CommittedEarlier = {1}
    /\ log[Len(log)].v = 2
    /\ DOMAIN rows = {1}


\* C30: with a database type that is not in the registry, Init, Migrate and
\* Rollback each return the unsupported-dialect error on every call, in any
\* call order, before any statement or transaction; the database is unchanged.
C30_UnknownDialect ==
    (pc = "done" /\ result.op \in {"Init", "Migrate", "Rollback"}
        /\ dbType \notin {"postgres", "mysql", "sqlite3"}) =>
        /\ result.err = "unsupported"
        /\ log = <<>>
        /\ ~txOpen
        /\ sqlText = NoSQL
        /\ rows = pre.rows
        /\ schema = pre.schema
        /\ result.op = "Init" => tableExists = pre.table

C30_Witness ==
    /\ Finished("Rollback") /\ result.err = "unsupported"
    /\ dbType = "sqlite"
    /\ tableExists
    /\ DOMAIN rows = {1, 2}
    /\ CatalogVersions = {1, 2}


\* the catalog lists no version twice
CatalogUnique ==
    \A i, j \in 1..Len(migrations) :
        migrations[i].Version = migrations[j].Version => i = j

\* C31: within one Migrate call the up-SQL executions are in strictly
\* ascending version order, each in a transaction of its own, and on success
\* every pending catalog version was executed, also one below an applied
\* version.
C31_AscendingOrder ==
    Finished("Migrate") =>
        /\ \A i, j \in Events("up") : i < j => log[i].v < log[j].v
        /\ \A i \in Events("up") : i > 1 /\ log[i - 1].e = "begin"
        /\ result.err = "nil" =>
               {log[i].v : i \in Events("up")} = PendingAtCall

\* C32: within one Migrate call the up-SQL of each catalog version is
\* executed at most once, for every catalog LoadMigrations calls can build,
\* also after LoadMigrations was called more than once on the Migrator.
C32_UpAtMostOnce ==
    \A i, j \in Events("up") : log[i].v = log[j].v => i = j


\* C33: at most one transaction is open at any time: db.Begin is only called
\* with no transaction open, no transaction is open when Migrate or Rollback
\* has returned, on success or on any error, and in Migrate the transaction
\* of one version is committed before the next one begins.
C33_NoOpenTransaction ==
    /\ pc \in {"idle", "done", "m_loop", "r_begin"} => ~txOpen
    /\ \A i, j \in Events("begin") :
           i < j => \E k \in Events("commit") : i < k /\ k < j

C33_Witness ==
    /\ pc = "m_up" /\ txOpen
    /\ Cardinality(Events("begin")) = 2
    /\ Cardinality(Events("commit")) = 1


\* versions that have a file of direction d in the directory
VersionsWith(d) == {FileVersion(k) : k \in {j \in MigrationFiles : FileDirection(j) = d}}

\* versions of the catalog whose up-SQL is empty
EmptyUp == {migrations[i].Version :
               i \in {j \in 1..Len(migrations) : migrations[j].UpSQL = EmptyContent}}

\* C34: a version with a file of one direction only is loaded as a Migration
\* whose other body is empty; Migrate executes an empty up-SQL like any other
\* and records the version as applied; Rollback of a version with an empty
\* down-SQL deletes its row.
C34_OneDirectionOnly ==
    /\ loads > 0 =>
           /\ CatalogVersions = VersionsWith(Up) \cup VersionsWith(Down)
           /\ \A i \in 1..Len(migrations) :
                  /\ migrations[i].UpSQL = EmptyContent
                         <=> migrations[i].Version \notin VersionsWith(Up)
                  /\ migrations[i].DownSQL = EmptyContent
                         <=> migrations[i].Version \notin VersionsWith(Down)
    /\ (Finished("Migrate") /\ result.err = "nil") =>
           /\ EmptyUp \subseteq DOMAIN rows
           /\ EmptyUp \cap PendingAtCall \subseteq {log[i].v : i \in Events("up")}
           /\ schema = pre.schema \cup (PendingAtCall \ EmptyUp)
    /\ (Finished("Rollback") /\ result.err = "nil") =>
           \A i \in Events("down") :
               /\ log[i].v \notin DOMAIN rows
               /\ migrations[FindMigration(log[i].v)].DownSQL = EmptyContent
                      => schema = pre.schema

C34_Witness ==
    /\ Finished("Rollback") /\ result.err = "nil"
    /\ CatalogVersions = {1, 2}
    /\ 1 \in EmptyUp
    /\ DOMAIN pre.rows = {1, 2}
    /\ \E i \in Events("down") :
           /\ log[i].v = 2
           /\ migrations[FindMigration(2)].DownSQL = EmptyContent
    /\ DOMAIN rows = {1}
    /\ schema = {2}


\* C35: with a catalog that does not change, an applied set that starts
\* empty and insert times strictly after those of all rows recorded before,
\* the applied set is at every moment a downward-closed prefix of the
\* catalog: when version v is applied, every catalog version below v is
\* applied too, after any sequence of Migrate calls (failing ones included)
\* and Rollback calls.
C35_AppliedIsPrefix ==
    \A v \in DOMAIN rows :
        \A u \in CatalogVersions : u < v => u \in DOMAIN rows

C35_Witness ==
    /\ Finished("Rollback") /\ result.err = "nil"
    /\ CatalogVersions = Versions
    /\ DOMAIN rows = Versions \ {MaxVersion}
    /\ MaxVersion \in DOMAIN pre.rows
    /\ \E v \in DOMAIN rows : rows[v].appliedAt > 1


\* rows of the shared table, and committed up-SQL runs, of version v
RowsOf(v) == {i \in 1..Len(store.table) : store.table[i].version = v}
EffectsOf(v) == {i \in 1..Len(store.effects) : store.effects[i].version = v}

\* p read the applied set before q committed version v, and reached v
LostRace(p, q, v) ==
    /\ p # q
    /\ inst[p].pc = "done"
    /\ v \notin DOMAIN inst[p].applied
    /\ inst[p].cur.Version = v
    /\ \E i \in RowsOf(v) : store.table[i].by = q

\* C36: when two Migrators with the same catalog run Migrate concurrently on
\* one database, every version has at most one row in schema_migrations and
\* its up-SQL is committed at most once; the Migrator that loses the race on
\* a version returns an error (naming the version when a statement of the
\* version failed), its transaction is rolled back and nothing of it is
\* committed for that version.
C36_ConcurrentMigrate ==
    /\ \A v \in Versions : Cardinality(RowsOf(v)) <= 1
    /\ \A v \in Versions : Cardinality(EffectsOf(v)) <= 1
    /\ \A p, q \in Instances : \A v \in Versions :
           LostRace(p, q, v) =>
               /\ inst[p].result.err # "nil"
               /\ inst[p].result.err \in {"apply", "record"} =>
                      inst[p].result.version = v
               /\ ~inst[p].txOpen /\ inst[p].txUp = {} /\ inst[p].txRow = {}
               /\ \A i \in RowsOf(v) : store.table[i].by # p
               /\ \A i \in EffectsOf(v) : store.effects[i].by # p

\* Migrator 1 ran the up-SQL of version 1, then lost the insert to Migrator 2
C36_Witness ==
    /\ LostRace(1, 2, 1)
    /\ inst[1].result = [op |-> "Migrate", err |-> "record", version |-> 1]
    /\ DOMAIN inst[2].applied = {}
    /\ inst[2].pc = "done" /\ inst[2].result.err = "nil"
    /\ Recorded(store.table) = Versions


\* versions that the migration files among the entries carry
UsedVersions(entries) ==
    {parseMigrationFilename(entries[k].name).version :
        k \in {j \in 1..Len(entries) : ~SkipEntry(entries[j].name)}}

\* C37: createMigrationFiles picks a version number that no migration file
\* already in the directory uses, for every directory content reachable by
\* creating and deleting files.
C37_CreatePicksFreshVersion ==
    (result.op = "create" /\ result.err = "nil") =>
        result.version \notin UsedVersions(pre.entries)

\* no file was deleted: the directory holds the files of versions 1..k in
\* pairs, and create picked k + 1
C37_CreateWithoutDelete ==
    (/\ result.op = "create" /\ result.err = "nil"
     /\ Len(pre.entries) % 2 = 0
     /\ UsedVersions(pre.entries) = 1..(Len(pre.entries) \div 2)) =>
        result.version = Len(pre.entries) \div 2 + 1

====
